---- MODULE Spec2Model ----
(***************************************************************************)
(* Model of the note service (infrateam9/note): the identifier codec, the  *)
(* two Storage backends (disk and S3), the request normaliser and the two  *)
(* handlers HandleGet / HandlePost.                                        *)
(*                                                                         *)
(* A Go string is a sequence of one-character strings: "ab" is <<"a","b">>.*)
(***************************************************************************)
EXTENDS Integers, Sequences, FiniteSets, TLC

VARIABLES backend, store, req, resp, calls, hist, codec, procs, load, served

vars == <<backend, store, req, resp, calls, hist, codec, procs, load, served>>

(***************************************************************************)
(* Bounds of the model.                                                    *)
(***************************************************************************)
\* longest note content in a request
MaxContentLen == 2
\* number of charset positions rand.Intn may return in the model
MaxRand == 1
\* most requests, or direct calls, the clients of a run make
MaxServed == 3
\* longest id handed to ValidateNoteID on its own
MaxIdLen == 2

(***************************************************************************)
(* strings package                                                         *)
(***************************************************************************)
Upper == <<"A","B","C","D","E","F","G","H","I","J","K","L","M",
           "N","O","P","Q","R","S","T","U","V","W","X","Y","Z">>
Lower == <<"a","b","c","d","e","f","g","h","i","j","k","l","m",
           "n","o","p","q","r","s","t","u","v","w","x","y","z">>
Digits == <<"0","1","2","3","4","5","6","7","8","9">>

Range(s) == {s[i] : i \in 1..Len(s)}

\* characters a TLA+ string cannot spell, each one element of a string:
\* the vertical tab, U+0085 (next line), U+00A0 (no-break space)
VT == "\\v"

NEL == "\\u0085"

NBSP == "\\u00a0"

\* the other characters of Unicode's White_Space property: U+1680,
\* U+2000..U+200A, U+2028, U+2029, U+202F, U+205F, U+3000
UnicodeSpaces ==
    {"\\u1680", "\\u2000", "\\u2001", "\\u2002", "\\u2003", "\\u2004", "\\u2005",
     "\\u2006", "\\u2007", "\\u2008", "\\u2009", "\\u200a", "\\u2028", "\\u2029",
     "\\u202f", "\\u205f", "\\u3000"}

\* the white space strings.TrimSpace cuts: unicode.IsSpace
WhiteSpace == {" ", "\t", "\n", "\r", "\f", VT, NEL, NBSP} \cup UnicodeSpaces

RECURSIVE TrimLeft(_, _)
TrimLeft(s, cutset) ==
    IF s # <<>> /\ Head(s) \in cutset THEN TrimLeft(Tail(s), cutset) ELSE s

RECURSIVE TrimRight(_, _)
TrimRight(s, cutset) ==
    IF s # <<>> /\ s[Len(s)] \in cutset
    THEN TrimRight(SubSeq(s, 1, Len(s) - 1), cutset)
    ELSE s

Trim(s, cutset) == TrimRight(TrimLeft(s, cutset), cutset)

TrimSpace(s) == Trim(s, WhiteSpace)

\* sub occurs in s at the 0-based position i
OccursAt(s, sub, i) ==
    /\ i + Len(sub) <= Len(s)
    /\ \A j \in 1..Len(sub) : s[i + j] = sub[j]

RECURSIVE IndexFrom(_, _, _)
IndexFrom(s, sub, i) ==
    IF i + Len(sub) > Len(s) THEN -1
    ELSE IF OccursAt(s, sub, i) THEN i
    ELSE IndexFrom(s, sub, i + 1)

\* strings.Index: 0-based position of the first occurrence of sub, or -1
Index(s, sub) == IndexFrom(s, sub, 0)

Contains(s, sub) == Index(s, sub) # -1

HasSuffix(s, suf) ==
    Len(s) >= Len(suf) /\ SubSeq(s, Len(s) - Len(suf) + 1, Len(s)) = suf

TrimSuffix(s, suf) ==
    IF HasSuffix(s, suf) THEN SubSeq(s, 1, Len(s) - Len(suf)) ELSE s

ToLowerChar(c) ==
    IF \E i \in 1..26 : Upper[i] = c
    THEN Lower[CHOOSE i \in 1..26 : Upper[i] = c]
    ELSE c

ToLower(s) == [i \in 1..Len(s) |-> ToLowerChar(s[i])]

(***************************************************************************)
(* Identifier codec (utils.go)                                             *)
(***************************************************************************)
\* the character class [a-zA-Z0-9]
Alnum == Range(Upper) \cup Range(Lower) \cup Range(Digits)

\* mutant: the pattern without its anchors
ValidateNoteIDUnanchored(noteID) == \E i \in 1..Len(noteID) : noteID[i] \in Alnum

\* mutant: the pattern with * in place of +
ValidateNoteIDAllowsEmpty(noteID) == \A i \in 1..Len(noteID) : noteID[i] \in Alnum

ValidateNoteID(noteID) ==
    /\ noteID # <<>>
    /\ \A i \in 1..Len(noteID) : noteID[i] \in Alnum

\* mutant: a charset with a separator among its characters
charsetWithHyphen ==
    <<"A","B","C","D","E","F","G","H","J","K","L","M","N","P","Q","R",
      "S","T","U","V","W","X","Y","Z","2","3","4","5","6","7","8","-">>

charset == <<"A","B","C","D","E","F","G","H","J","K","L","M","N","P","Q","R",
             "S","T","U","V","W","X","Y","Z","2","3","4","5","6","7","8","9">>

length == 5

\* the values rand.Intn(len(charset)) returns in the model
RandInts == 0..(MaxRand - 1)

GenerateNoteID(rnd) == [i \in 1..length |-> charset[rnd[i] + 1]]

(***************************************************************************)
(* Backing media.  `store` maps a storage key to an entry.  On the disk    *)
(* backend the keys are cleaned absolute paths and an entry is a directory *)
(* or a regular file; on the S3 backend the keys are object keys and every *)
(* entry is an object.                                                     *)
(***************************************************************************)
DirEntry == [dir |-> TRUE, data |-> <<>>]

FileEntry(content) == [dir |-> FALSE, data |-> content]

\* NOTE_DIR default
dir == <<"/","n","o","t","e">>

\* S3_PREFIX default
prefix == <<"n","o","t","e">>

\* the components of a slash-separated path, empty components included
RECURSIVE SplitSlash(_)
SplitSlash(s) ==
    LET i == Index(s, <<"/">>)
    IN  IF i = -1 THEN <<s>>
        ELSE <<SubSeq(s, 1, i)>> \o SplitSlash(SubSeq(s, i + 2, Len(s)))

\* filepath.Clean on a rooted path: "" and "." components vanish, ".." pops
RECURSIVE CleanComponents(_, _)
CleanComponents(comps, stack) ==
    IF comps = <<>> THEN stack
    ELSE LET c == Head(comps)
         IN  IF c = <<>> \/ c = <<".">>
             THEN CleanComponents(Tail(comps), stack)
             ELSE IF c = <<".", ".">>
             THEN CleanComponents(Tail(comps),
                      IF stack = <<>> THEN stack
                      ELSE SubSeq(stack, 1, Len(stack) - 1))
             ELSE CleanComponents(Tail(comps), Append(stack, c))

RECURSIVE JoinSlash(_)
JoinSlash(comps) ==
    IF comps = <<>> THEN <<>>
    ELSE <<"/">> \o Head(comps) \o JoinSlash(Tail(comps))

Clean(path) ==
    LET comps == CleanComponents(SplitSlash(path), <<>>)
    IN  IF comps = <<>> THEN <<"/">> ELSE JoinSlash(comps)

\* filepath.Join(d, noteID) for an absolute d: empty elements are ignored
FilepathJoin(d, noteID) ==
    IF noteID = <<>> THEN Clean(d) ELSE Clean(d \o <<"/">> \o noteID)

\* the proper ancestors of a cleaned absolute path, the root included
Ancestors(path) ==
    LET comps == CleanComponents(SplitSlash(path), <<>>)
    IN  {IF n = 0 THEN <<"/">> ELSE JoinSlash(SubSeq(comps, 1, n)) :
             n \in 0..(Len(comps) - 1)}

Parent(path) ==
    LET comps == CleanComponents(SplitSlash(path), <<>>)
    IN  IF Len(comps) <= 1 THEN <<"/">>
        ELSE JoinSlash(SubSeq(comps, 1, Len(comps) - 1))

\* some ancestor of the path is a regular file, or is missing
AncestorIsFile(st, path) ==
    \E a \in Ancestors(path) : a \in DOMAIN st /\ ~st[a].dir

Children(st, path) == {k \in DOMAIN st : k # path /\ Parent(k) = path}

Remove(st, key) == [k \in DOMAIN st \ {key} |-> st[k]]

Put(st, key, entry) == (key :> entry) @@ st

\* the filesystem the server runs in holds files outside the notes
\* directory: here /etc/passwd, readable by the user of the server
passwd == <<"/","e","t","c","/","p","a","s","s","w","d">>

HostFiles ==
    (<<"/","e","t","c">> :> DirEntry) @@ (passwd :> FileEntry(<<"r","o","o","t">>))

\* the notes a medium holds
Notes(st) == {k \in DOMAIN st : ~st[k].dir /\ k \notin DOMAIN HostFiles}

\* I/O faults of the environment: none; a failure before the operation has
\* any effect; for a disk write, a failure after the file was truncated and
\* before any byte was written, or after all but the last byte were written
Faults == {"none", "open", "trunc", "short"}

NoErr == "nil"

(***************************************************************************)
(* LocalStorage (storage_local.go)                                         *)
(***************************************************************************)
LocalStorageRead(st, noteID, fault) ==
    LET filePath == FilepathJoin(dir, noteID)
    IN  IF fault # "none"
        THEN [content |-> <<>>, err |-> "failed to read note"]
        ELSE IF filePath \in DOMAIN st
        THEN IF st[filePath].dir
             THEN [content |-> <<>>, err |-> "failed to read note"]
             ELSE [content |-> st[filePath].data, err |-> NoErr]
        ELSE IF AncestorIsFile(st, filePath)
        THEN [content |-> <<>>, err |-> "failed to read note"]
        ELSE [content |-> <<>>, err |-> NoErr]

\* mutant: the file is opened without O_TRUNC
LocalStorageWriteAppends(st, noteID, content, fault) ==
    LET filePath == FilepathJoin(dir, noteID)
        old == IF filePath \in DOMAIN st THEN st[filePath].data ELSE <<>>
    IN  IF fault # "none"
        THEN [store |-> st, err |-> "failed to write note"]
        ELSE [store |-> Put(st, filePath,
                            FileEntry(content \o SubSeq(old, Len(content) + 1, Len(old)))),
              err |-> NoErr]

\* os.WriteFile opens with O_WRONLY|O_CREATE|O_TRUNC, writes, closes
LocalStorageWrite(st, noteID, content, fault) ==
    LET filePath == FilepathJoin(dir, noteID)
        parent   == Parent(filePath)
        openFails ==
            \/ fault = "open"
            \/ filePath \in DOMAIN st /\ st[filePath].dir
            \/ parent \notin DOMAIN st
            \/ ~st[parent].dir
    IN  IF openFails
        THEN [store |-> st, err |-> "failed to write note"]
        ELSE IF fault = "trunc" \/ (fault = "short" /\ content = <<>>)
        THEN [store |-> Put(st, filePath, FileEntry(<<>>)),
              err |-> "failed to write note"]
        ELSE IF fault = "short"
        THEN [store |-> Put(st, filePath,
                            FileEntry(SubSeq(content, 1, Len(content) - 1))),
              err |-> "failed to write note"]
        ELSE [store |-> Put(st, filePath, FileEntry(content)), err |-> NoErr]

\* mutant: the file stays
LocalStorageDeleteNoop(st, noteID, fault) ==
    IF fault # "none"
    THEN [store |-> st, err |-> "failed to delete note"]
    ELSE [store |-> st, err |-> NoErr]

\* os.Remove removes a file or an empty directory
LocalStorageDelete(st, noteID, fault) ==
    LET filePath == FilepathJoin(dir, noteID)
    IN  IF fault # "none"
        THEN [store |-> st, err |-> "failed to delete note"]
        ELSE IF filePath \notin DOMAIN st
        THEN IF AncestorIsFile(st, filePath)
             THEN [store |-> st, err |-> "failed to delete note"]
             ELSE [store |-> st, err |-> NoErr]
        ELSE IF st[filePath].dir
                /\ (filePath = <<"/">> \/ Children(st, filePath) # {})
        THEN [store |-> st, err |-> "failed to delete note"]
        ELSE [store |-> Remove(st, filePath), err |-> NoErr]

(***************************************************************************)
(* S3Storage (storage_s3.go)                                               *)
(***************************************************************************)
\* mutant: every note goes to one key
objectKeyIgnoresId(noteID) == TrimSuffix(prefix, <<"/">>) \o <<"/">> \o <<"n","o","t","e">>

objectKey(noteID) == TrimSuffix(prefix, <<"/">>) \o <<"/">> \o noteID

S3StorageRead(st, noteID, fault) ==
    LET key == objectKey(noteID)
    IN  IF fault # "none"
        THEN [content |-> <<>>, err |-> "failed to read note from S3"]
        ELSE IF key \in DOMAIN st
        THEN [content |-> st[key].data, err |-> NoErr]
        ELSE [content |-> <<>>, err |-> NoErr]

S3StorageWrite(st, noteID, content, fault) ==
    IF fault # "none"
    THEN [store |-> st, err |-> "failed to write note to S3"]
    ELSE [store |-> Put(st, objectKey(noteID), FileEntry(content)), err |-> NoErr]

S3StorageDelete(st, noteID, fault) ==
    IF fault # "none"
    THEN [store |-> st, err |-> "failed to delete note from S3"]
    ELSE [store |-> Remove(st, objectKey(noteID)), err |-> NoErr]

(***************************************************************************)
(* The Storage interface, dispatched on the backend chosen at startup      *)
(***************************************************************************)
StorageRead(b, st, noteID, fault) ==
    IF b = "local" THEN LocalStorageRead(st, noteID, fault)
    ELSE S3StorageRead(st, noteID, fault)

StorageWrite(b, st, noteID, content, fault) ==
    IF b = "local" THEN LocalStorageWrite(st, noteID, content, fault)
    ELSE S3StorageWrite(st, noteID, content, fault)

StorageDelete(b, st, noteID, fault) ==
    IF b = "local" THEN LocalStorageDelete(st, noteID, fault)
    ELSE S3StorageDelete(st, noteID, fault)

\* NewLocalStorage creates the directory; a bucket starts without objects
NewStorage(b) ==
    IF b = "local" THEN (<<"/">> :> DirEntry) @@ (dir :> DirEntry) @@ HostFiles
    ELSE [k \in {} |-> DirEntry]

(***************************************************************************)
(* Requests.  A request is a record                                        *)
(*   method, path (r.URL.Path), note and noteId (the decoded query         *)
(*   parameters), contentType and userAgent (headers), host and https      *)
(*   (r.Host; r.TLS or X-Forwarded-Proto), bodyErr (io.ReadAll failed),    *)
(*   body: raw (the body bytes), json (what json.Unmarshal makes of them)  *)
(*   and form (what url.ParseQuery makes of them).                         *)
(***************************************************************************)
Str_noteid == <<"/","n","o","t","e","i","d","/">>

Str_curl == <<"c","u","r","l">>

Str_json == <<"a","p","p","l","i","c","a","t","i","o","n","/","j","s","o","n">>

Str_form == <<"a","p","p","l","i","c","a","t","i","o","n","/","x","-","w","w","w",
              "-","f","o","r","m","-","u","r","l","e","n","c","o","d","e","d">>

Str_text == <<"t","e","x","t","/","p","l","a","i","n">>

\* extractPathNoteID extracts a note ID from a path of the form /.../noteid/{id}
extractPathNoteID(r) ==
    LET idx == Index(r.path, Str_noteid)
    IN  IF idx # -1
        THEN Trim(SubSeq(r.path, idx + Len(Str_noteid) + 1, Len(r.path)), {"/"})
        ELSE <<>>

\* mutant: the id of the path is preferred to the query parameter
extractNoteIDPathFirst(r) ==
    IF extractPathNoteID(r) # <<>> THEN extractPathNoteID(r) ELSE r.note

\* extractNoteID returns the note id either from query (?note=) or from /noteid/{id}
extractNoteID(r) ==
    IF r.note # <<>> THEN r.note ELSE extractPathNoteID(r)

\* mutant: the User-Agent is not lower-cased
isCurlRequestCaseSensitive(r) == Contains(r.userAgent, Str_curl)

isCurlRequest(r) == Contains(ToLower(r.userAgent), Str_curl)

NoteRequest(noteID, content) == [NoteID |-> noteID, Content |-> content]

\* mutant: a raw body takes the id of the path before the query parameter
parseNoteRequestPathFirst(r) ==
    IF Contains(r.contentType, Str_json)
    THEN IF ~r.body.json.ok
         THEN [req |-> NoteRequest(<<>>, <<>>), err |-> "invalid JSON format"]
         ELSE [req |-> NoteRequest(IF r.body.json.noteId = <<>>
                                   THEN extractPathNoteID(r)
                                   ELSE r.body.json.noteId,
                                   r.body.json.content),
               err |-> NoErr]
    ELSE IF Contains(r.contentType, Str_form)
    THEN IF r.body.form.ok /\ (r.body.form.hasText \/ r.body.form.hasNoteId)
         THEN [req |-> NoteRequest(r.body.form.noteId, r.body.form.text),
               err |-> NoErr]
         ELSE [req |-> NoteRequest(<<>>, r.body.raw), err |-> NoErr]
    ELSE [req |-> NoteRequest(IF extractPathNoteID(r) = <<>>
                              THEN r.noteId
                              ELSE extractPathNoteID(r),
                              r.body.raw),
          err |-> NoErr]

\* mutant: the error of url.ParseQuery is not looked at
parseNoteRequestIgnoresFormError(r) ==
    IF Contains(r.contentType, Str_json)
    THEN IF ~r.body.json.ok
         THEN [req |-> NoteRequest(<<>>, <<>>), err |-> "invalid JSON format"]
         ELSE [req |-> NoteRequest(IF r.body.json.noteId = <<>>
                                   THEN extractPathNoteID(r)
                                   ELSE r.body.json.noteId,
                                   r.body.json.content),
               err |-> NoErr]
    ELSE IF Contains(r.contentType, Str_form)
    THEN IF r.body.form.hasText \/ r.body.form.hasNoteId
         THEN [req |-> NoteRequest(r.body.form.noteId, r.body.form.text),
               err |-> NoErr]
         ELSE [req |-> NoteRequest(<<>>, r.body.raw), err |-> NoErr]
    ELSE [req |-> NoteRequest(IF r.noteId = <<>>
                              THEN extractPathNoteID(r)
                              ELSE r.noteId,
                              r.body.raw),
          err |-> NoErr]

\* mutant: a JSON body takes the id of the path before its own noteId
parseNoteRequestJSONPathFirst(r) ==
    IF Contains(r.contentType, Str_json)
    THEN IF ~r.body.json.ok
         THEN [req |-> NoteRequest(<<>>, <<>>), err |-> "invalid JSON format"]
         ELSE [req |-> NoteRequest(IF extractPathNoteID(r) = <<>>
                                   THEN r.body.json.noteId
                                   ELSE extractPathNoteID(r),
                                   r.body.json.content),
               err |-> NoErr]
    ELSE IF Contains(r.contentType, Str_form)
    THEN IF r.body.form.ok /\ (r.body.form.hasText \/ r.body.form.hasNoteId)
         THEN [req |-> NoteRequest(r.body.form.noteId, r.body.form.text),
               err |-> NoErr]
         ELSE [req |-> NoteRequest(<<>>, r.body.raw), err |-> NoErr]
    ELSE [req |-> NoteRequest(IF r.noteId = <<>>
                              THEN extractPathNoteID(r)
                              ELSE r.noteId,
                              r.body.raw),
          err |-> NoErr]

\* parseNoteRequest parses the request body into NoteRequest
parseNoteRequest(r) ==
    IF Contains(r.contentType, Str_json)
    THEN IF ~r.body.json.ok
         THEN [req |-> NoteRequest(<<>>, <<>>), err |-> "invalid JSON format"]
         ELSE [req |-> NoteRequest(IF r.body.json.noteId = <<>>
                                   THEN extractPathNoteID(r)
                                   ELSE r.body.json.noteId,
                                   r.body.json.content),
               err |-> NoErr]
    ELSE IF Contains(r.contentType, Str_form)
    THEN IF r.body.form.ok /\ (r.body.form.hasText \/ r.body.form.hasNoteId)
         THEN [req |-> NoteRequest(r.body.form.noteId, r.body.form.text),
               err |-> NoErr]
         ELSE [req |-> NoteRequest(<<>>, r.body.raw), err |-> NoErr]
    ELSE [req |-> NoteRequest(IF r.noteId = <<>>
                              THEN extractPathNoteID(r)
                              ELSE r.noteId,
                              r.body.raw),
          err |-> NoErr]

\* getBaseURL with the URL environment variable unset and no X-Forwarded-Host
getBaseURL(r) ==
    LET scheme == IF r.https THEN <<"h","t","t","p","s">> ELSE <<"h","t","t","p">>
        idx    == Index(r.path, Str_noteid)
        root   == IF idx # -1 THEN SubSeq(r.path, 1, idx) ELSE r.path
        path   == IF HasSuffix(root, <<"/">>) THEN root ELSE root \o <<"/">>
    IN  scheme \o <<":","/","/">> \o r.host \o path

(***************************************************************************)
(* Responses: status, Content-Type header, Access-Control-Allow-Origin     *)
(* header, and the body: its kind ("html", "text", "json", "error" for the *)
(* plain text of http.Error, "none"), and the fields the kind uses:        *)
(* success, noteId and error of a NoteResponse; noteId and text (the note  *)
(* content) of the HTML document; text of a plain-text body.               *)
(***************************************************************************)
Response(status, ctype, cors, kind, success, noteId, text, error) ==
    [status |-> status, ctype |-> ctype, cors |-> cors, kind |-> kind,
     success |-> success, noteId |-> noteId, text |-> text, error |-> error]

NoResponse == Response(0, "", "", "none", FALSE, <<>>, <<>>, "")

\* the handler panicked: it wrote no response
Panicked ==
    Response(0, "", "", "panic", FALSE, <<>>, <<>>,
             "invalid memory address or nil pointer dereference")

\* http.Error
HttpError(cors, error, code) ==
    Response(code, "text/plain; charset=utf-8", cors, "error", FALSE, <<>>, <<>>, error)

\* writeJSONError writes a JSON error response
writeJSONError(status, message) ==
    Response(status, "application/json", "*", "json", FALSE, <<>>, <<>>, message)

\* one call of a Storage method: the method, its arguments, the fault the
\* environment injected, what the call returned; whether no other handler
\* ran while the handler that made the call did (alone); whether no other
\* call that writes or removes what is stored under the id ran while the
\* call did (quiet); what the call found under its key (over)
Call(op, noteID, content, fault, err) ==
    [op |-> op, id |-> noteID, content |-> content, fault |-> fault, err |-> err,
     alone |-> TRUE, quiet |-> TRUE, over |-> ""]

(***************************************************************************)
(* Handlers (handlers.go).  Each operator computes what one run of the     *)
(* handler does: the response, the Storage calls made and the medium       *)
(* afterwards.                                                             *)
(***************************************************************************)
Outcome(response, callsMade, st) ==
    [resp |-> response, calls |-> callsMade, store |-> st]

\* the Lambda adapters (the hosting mode of the S3 backend) build the
\* request with http.NewRequest and give it no body reader when the event's
\* body is empty: r.Body is nil
NilBody(b, r) == b = "s3" /\ r.body.raw = <<>>

\* mutant: Storage.Read is called also when the request carries no id
HandleGetOutReadsAlways(b, st, r, fault) ==
    LET noteID == extractNoteID(r)
        rd     == StorageRead(b, st, noteID, fault)
        made   == <<Call("Read", noteID, rd.content, fault, rd.err)>>
    IN  IF rd.err # NoErr
        THEN Outcome(HttpError("", "Internal server error", 500), made, st)
        ELSE IF isCurlRequest(r) /\ noteID # <<>>
        THEN IF rd.content = <<>>
             THEN Outcome(HttpError("", "Note not found", 404), made, st)
             ELSE Outcome(Response(200, "text/plain; charset=utf-8", "", "text",
                                   FALSE, <<>>, rd.content, ""), made, st)
        ELSE Outcome(Response(200, "text/html; charset=utf-8", "", "html",
                              FALSE, noteID, rd.content, ""), made, st)

\* what HandleGet answers once Storage.Read has returned
GetResponse(r, noteID, rd) ==
    IF rd.err # NoErr
    THEN HttpError("", "Internal server error", 500)
    ELSE IF isCurlRequest(r)
    THEN IF rd.content = <<>>
         THEN HttpError("", "Note not found", 404)
         ELSE Response(200, "text/plain; charset=utf-8", "", "text",
                       FALSE, <<>>, rd.content, "")
    ELSE Response(200, "text/html; charset=utf-8", "", "html",
                  FALSE, noteID, rd.content, "")

HandleGetOut(b, st, r, fault) ==
    LET noteID == extractNoteID(r)
        rd     == StorageRead(b, st, noteID, fault)
        made   == <<Call("Read", noteID, rd.content, fault, rd.err)>>
    IN  IF noteID = <<>>
        THEN Outcome(Response(200, "text/html; charset=utf-8", "", "html",
                              FALSE, <<>>, <<>>, ""), <<>>, st)
        ELSE Outcome(GetResponse(r, noteID, rd), made, st)

\* mutant: the content type is looked at before the User-Agent
PostSuccessFormFirst(r, noteID) ==
    IF Contains(r.contentType, Str_form)
    THEN Response(200, "text/plain", "*", "text", FALSE, <<>>,
                  <<"O","K",":"," ">> \o noteID \o <<"\n">>, "")
    ELSE IF isCurlRequest(r)
    THEN Response(200, "text/plain", "*", "text", FALSE, <<>>,
                  getBaseURL(r) \o <<"n","o","t","e","i","d","/">> \o noteID \o <<"\n">>, "")
    ELSE Response(200, "application/json", "*", "json", TRUE, noteID, <<>>, "")

\* the success response of HandlePost
PostSuccess(r, noteID) ==
    IF isCurlRequest(r)
    THEN Response(200, "text/plain", "*", "text", FALSE, <<>>,
                  getBaseURL(r) \o <<"n","o","t","e","i","d","/">> \o noteID \o <<"\n">>, "")
    ELSE IF Contains(r.contentType, Str_form)
    THEN Response(200, "text/plain", "*", "text", FALSE, <<>>,
                  <<"O","K",":"," ">> \o noteID \o <<"\n">>, "")
    ELSE Response(200, "application/json", "*", "json", TRUE, noteID, <<>>, "")

\* mutant: blank content is written like any other
SaveOrDeleteAlwaysSaves(b, st, noteID, content, fault) ==
    LET wr == StorageWrite(b, st, noteID, content, fault)
    IN  [call |-> Call("Write", noteID, content, fault, wr.err),
         store |-> wr.store, error |-> "Failed to save note"]

\* the "Save or delete" step of HandlePost: the Storage call it makes, the
\* medium afterwards and the message of the 500 response if the call fails
SaveOrDelete(b, st, noteID, content, fault) ==
    IF TrimSpace(content) = <<>>
    THEN LET del == StorageDelete(b, st, noteID, fault)
         IN  [call |-> Call("Delete", noteID, <<>>, fault, del.err),
              store |-> del.store, error |-> "Failed to delete note"]
    ELSE LET wr == StorageWrite(b, st, noteID, content, fault)
         IN  [call |-> Call("Write", noteID, content, fault, wr.err),
              store |-> wr.store, error |-> "Failed to save note"]

\* mutant: a Storage call that failed is made a second time
HandlePostOutRetries(b, st, r, rnd, fault) ==
    LET parsed  == parseNoteRequest(r)
        trimmed == TrimSpace(parsed.req.NoteID)
        noteID  == IF trimmed = <<>> THEN GenerateNoteID(rnd) ELSE trimmed
        done    == SaveOrDelete(b, st, noteID, parsed.req.Content, fault)
        again   == SaveOrDelete(b, done.store, noteID, parsed.req.Content, fault)
    IN  IF r.method = "OPTIONS"
        THEN Outcome(Response(200, "", "*", "none", FALSE, <<>>, <<>>, ""), <<>>, st)
        ELSE IF NilBody(b, r)
        THEN Outcome(Panicked, <<>>, st)
        ELSE IF r.bodyErr
        THEN Outcome(writeJSONError(500, "Read error"), <<>>, st)
        ELSE IF parsed.err # NoErr
        THEN Outcome(writeJSONError(400, parsed.err), <<>>, st)
        ELSE IF ~ValidateNoteID(noteID)
        THEN Outcome(writeJSONError(400, "Invalid note ID format"), <<>>, st)
        ELSE IF done.call.err # NoErr
        THEN IF again.call.err # NoErr
             THEN Outcome(writeJSONError(500, done.error),
                          <<done.call, again.call>>, again.store)
             ELSE Outcome(PostSuccess(r, noteID), <<done.call, again.call>>, again.store)
        ELSE Outcome(PostSuccess(r, noteID), <<done.call>>, done.store)

\* mutant: the success response reports the id as the request spelled it
HandlePostOutReportsRequestId(b, st, r, rnd, fault) ==
    LET parsed  == parseNoteRequest(r)
        trimmed == TrimSpace(parsed.req.NoteID)
        noteID  == IF trimmed = <<>> THEN GenerateNoteID(rnd) ELSE trimmed
        shown   == IF trimmed = <<>> THEN noteID ELSE parsed.req.NoteID
        done    == SaveOrDelete(b, st, noteID, parsed.req.Content, fault)
    IN  IF r.method = "OPTIONS"
        THEN Outcome(Response(200, "", "*", "none", FALSE, <<>>, <<>>, ""), <<>>, st)
        ELSE IF NilBody(b, r)
        THEN Outcome(Panicked, <<>>, st)
        ELSE IF r.bodyErr
        THEN Outcome(writeJSONError(500, "Read error"), <<>>, st)
        ELSE IF parsed.err # NoErr
        THEN Outcome(writeJSONError(400, parsed.err), <<>>, st)
        ELSE IF ~ValidateNoteID(noteID)
        THEN Outcome(writeJSONError(400, "Invalid note ID format"), <<>>, st)
        ELSE IF done.call.err # NoErr
        THEN Outcome(writeJSONError(500, done.error), <<done.call>>, done.store)
        ELSE Outcome(PostSuccess(r, shown), <<done.call>>, done.store)

\* mutant: a generated id that is taken is not used
HandlePostOutChecksExistence(b, st, r, rnd, fault) ==
    LET parsed  == parseNoteRequest(r)
        trimmed == TrimSpace(parsed.req.NoteID)
        noteID  == IF trimmed = <<>> THEN GenerateNoteID(rnd) ELSE trimmed
        rd      == StorageRead(b, st, noteID, fault)
        done    == SaveOrDelete(b, st, noteID, parsed.req.Content, fault)
    IN  IF r.method = "OPTIONS"
        THEN Outcome(Response(200, "", "*", "none", FALSE, <<>>, <<>>, ""), <<>>, st)
        ELSE IF NilBody(b, r)
        THEN Outcome(Panicked, <<>>, st)
        ELSE IF r.bodyErr
        THEN Outcome(writeJSONError(500, "Read error"), <<>>, st)
        ELSE IF parsed.err # NoErr
        THEN Outcome(writeJSONError(400, parsed.err), <<>>, st)
        ELSE IF ~ValidateNoteID(noteID)
        THEN Outcome(writeJSONError(400, "Invalid note ID format"), <<>>, st)
        ELSE IF trimmed = <<>> /\ (rd.err # NoErr \/ rd.content # <<>>)
        THEN Outcome(writeJSONError(500, "Failed to save note"),
                     <<Call("Read", noteID, rd.content, fault, rd.err)>>, st)
        ELSE IF done.call.err # NoErr
        THEN Outcome(writeJSONError(500, done.error), <<done.call>>, done.store)
        ELSE Outcome(PostSuccess(r, noteID), <<done.call>>, done.store)

HandlePostOut(b, st, r, rnd, fault) ==
    LET parsed  == parseNoteRequest(r)
        trimmed == TrimSpace(parsed.req.NoteID)
        noteID  == IF trimmed = <<>> THEN GenerateNoteID(rnd) ELSE trimmed
        done    == SaveOrDelete(b, st, noteID, parsed.req.Content, fault)
    IN  IF r.method = "OPTIONS"
        THEN Outcome(Response(200, "", "*", "none", FALSE, <<>>, <<>>, ""), <<>>, st)
        ELSE IF NilBody(b, r)
        THEN Outcome(Panicked, <<>>, st)
        ELSE IF r.bodyErr
        THEN Outcome(writeJSONError(500, "Read error"), <<>>, st)
        ELSE IF parsed.err # NoErr
        THEN Outcome(writeJSONError(400, parsed.err), <<>>, st)
        ELSE IF ~ValidateNoteID(noteID)
        THEN Outcome(writeJSONError(400, "Invalid note ID format"), <<>>, st)
        ELSE IF done.call.err # NoErr
        THEN Outcome(writeJSONError(500, done.error), <<done.call>>, done.store)
        ELSE Outcome(PostSuccess(r, noteID), <<done.call>>, done.store)

(***************************************************************************)
(* Inputs                                                                  *)
(***************************************************************************)
\* the strings over an alphabet of at most n characters
Strings(alphabet, n) == UNION {[1..k -> alphabet] : k \in 0..n}

Id_a_b == <<"a"," ","b">>

Id_dotdot == <<".",".">>

Id_passwd == <<".",".","/",".",".","/","e","t","c","/","p","a","s","s","w","d">>

\* the ids requests carry: none, valid, valid once trimmed, blank, invalid
ReqIds == {<<>>, <<"A">>, <<" ","A"," ">>, <<" ">>, Id_a_b, Id_dotdot, Id_passwd}

ContentAlphabet == {"x", " "}

Contents == Strings(ContentAlphabet, MaxContentLen)

\* the contents that start with white space: blank, or to be stored untrimmed
PaddedContents == {c \in Contents : c # <<>> /\ Head(c) = " "}

\* the draws of the random source: the last of the `length` draws varies
Draws == {[i \in 1..length |-> IF i = length THEN k ELSE 0] : k \in RandInts}

Root == <<"/">>

IdPaths == {Str_noteid \o <<"A">>,
            <<"/","a","p","p">> \o Str_noteid \o <<"A","/">>,
            Str_noteid \o Id_a_b}

Browser == <<"M","o","z","i","l","l","a">>

Curl == <<"C","u","r","l","/","8">>

\* url.QueryEscape on the characters the inputs use
QueryEscapeChar(c) ==
    IF c = " " THEN <<"+">>
    ELSE IF c = "/" THEN <<"%","2","F">>
    ELSE <<c>>

RECURSIVE QueryEscape(_)
QueryEscape(str) ==
    IF str = <<>> THEN <<>> ELSE QueryEscapeChar(Head(str)) \o QueryEscape(Tail(str))

NoJSON == [ok |-> FALSE, noteId |-> <<>>, content |-> <<>>]

NoFields == [ok |-> TRUE, hasText |-> FALSE, hasNoteId |-> FALSE,
             text |-> <<>>, noteId |-> <<>>]

\* the body {"noteId":"<id>","content":"<c>"}
JSONBody(id, c) ==
    [raw  |-> <<"{","\"","n","o","t","e","I","d","\"",":","\"">> \o id
              \o <<"\"",",","\"","c","o","n","t","e","n","t","\"",":","\"">> \o c
              \o <<"\"","}">>,
     json |-> [ok |-> TRUE, noteId |-> id, content |-> c],
     form |-> NoFields]

\* the body text=<c>&noteId=<id>
FormBody(id, c) ==
    [raw  |-> <<"t","e","x","t","=">> \o QueryEscape(c)
              \o <<"&","n","o","t","e","I","d","=">> \o QueryEscape(id),
     json |-> NoJSON,
     form |-> [ok |-> TRUE, hasText |-> TRUE, hasNoteId |-> TRUE,
               text |-> c, noteId |-> id]]

\* a body that is neither a JSON document nor a form with text or noteId
RawBody(c) == [raw |-> c, json |-> NoJSON, form |-> NoFields]

\* the body text=<c>&% : url.ParseQuery returns the field text and an error
BadFormBody(c) ==
    [raw  |-> <<"t","e","x","t","=">> \o QueryEscape(c) \o <<"&","%">>,
     json |-> NoJSON,
     form |-> [ok |-> FALSE, hasText |-> TRUE, hasNoteId |-> FALSE,
               text |-> c, noteId |-> <<>>]]

\* the body text=<c> : a form with the field text only
FormTextBody(c) ==
    [raw  |-> <<"t","e","x","t","=">> \o QueryEscape(c),
     json |-> NoJSON,
     form |-> [ok |-> TRUE, hasText |-> TRUE, hasNoteId |-> FALSE,
               text |-> c, noteId |-> <<>>]]

\* the body noteId=<id> : a form with the field noteId only
FormIdBody(id) ==
    [raw  |-> <<"n","o","t","e","I","d","=">> \o QueryEscape(id),
     json |-> NoJSON,
     form |-> [ok |-> TRUE, hasText |-> FALSE, hasNoteId |-> TRUE,
               text |-> <<>>, noteId |-> id]]

Request(method, path, note, noteId, contentType, userAgent, body) ==
    [method |-> method, path |-> path, note |-> note, noteId |-> noteId,
     contentType |-> contentType, userAgent |-> userAgent,
     host |-> <<"h">>, https |-> FALSE, bodyErr |-> FALSE, body |-> body]

NoRequest == Request("", <<>>, <<>>, <<>>, <<>>, <<>>, RawBody(<<>>))

Paths == {Root} \cup IdPaths

(***************************************************************************)
(* Workloads.  The clients of a run send the requests of one kind at one   *)
(* path, and the three requests that read, write and remove the note A.    *)
(***************************************************************************)
\* GETs: every id as the query parameter note, from a browser and from curl
Gets(p) ==
    {Request("GET", p, id, <<>>, <<>>, ua, RawBody(<<>>)) :
         id \in ReqIds, ua \in {Browser, Curl}}

\* POSTs with a JSON body: every id, with content and without
JSONPosts(p) ==
    {Request("POST", p, <<>>, <<>>, Str_json, Browser, JSONBody(id, c)) :
         id \in ReqIds, c \in {<<>>, <<"x">>}}

\* POSTs with a form body of both fields: every id from a browser, and from
\* curl no id, a valid id and an id to trim
FormPosts(p) ==
    {Request("POST", p, <<>>, <<>>, Str_form, Browser, FormBody(id, <<"x">>)) :
         id \in ReqIds}
    \cup {Request("POST", p, <<>>, <<>>, Str_form, Curl, FormBody(id, <<"x">>)) :
         id \in {<<>>, <<"A">>, <<" ","A"," ">>}}

\* POSTs with a raw body: every id as the query parameter noteId with the
\* content type text/plain, and with no content type no id and a valid id
RawPosts(p) ==
    {Request("POST", p, <<>>, id, Str_text, Browser, RawBody(<<"x">>)) :
         id \in ReqIds}
    \cup {Request("POST", p, <<>>, id, <<>>, Browser, RawBody(<<"x">>)) :
         id \in {<<>>, <<"A">>}}

\* JSON content types: every content that starts with white space, for a
\* generated id; curl; a body that is not a JSON document; a body that
\* cannot be read; a preflight request; a method no handler is written for
OtherJSONPosts ==
    {Request("POST", Root, <<>>, <<>>, Str_json, Browser, JSONBody(<<" ">>, c)) :
         c \in PaddedContents}
    \cup {Request("POST", Root, <<>>, <<>>, Str_json, Curl, JSONBody(id, c)) :
         id \in {<<>>, <<"A">>}, c \in {<<>>, <<"x">>}}
    \cup {Request("POST", Root, <<>>, <<>>, Str_json, Browser, RawBody(c)) :
         c \in {<<>>, <<"x">>}}
    \cup {[Request("POST", Root, <<>>, <<>>, Str_json, Browser, RawBody(<<>>))
              EXCEPT !.bodyErr = TRUE]}
    \cup {Request("OPTIONS", Root, <<>>, <<>>, <<>>, Browser, RawBody(<<>>))}
    \cup {Request("PUT", Root, <<>>, <<>>, Str_json, Browser, JSONBody(<<"A">>, <<"x">>))}

\* form content types: blank text; one field only; no field; a query
\* parameter noteId beside the body; a body url.ParseQuery rejects
OtherFormPosts ==
    {Request("POST", Root, <<>>, <<>>, Str_form, Browser, FormBody(<<"A">>, c)) :
         c \in {<<>>, <<" ">>}}
    \cup {Request("POST", Root, <<>>, <<>>, Str_form, Browser, body) :
         body \in {FormTextBody(<<"x">>), FormIdBody(<<"A">>)}}
    \cup {Request("POST", Root, <<>>, <<>>, Str_form, Browser, RawBody(c)) :
         c \in {<<>>, <<"x">>}}
    \cup {Request("POST", Root, <<>>, <<"B">>, Str_form, Browser, FormBody(id, <<"x">>)) :
         id \in {<<>>, <<"A">>}}
    \cup {Request("POST", Root, <<>>, <<>>, Str_form, Browser, BadFormBody(<<"x">>))}

\* raw bodies: blank ones, from a browser and from curl; white space outside
\* ASCII around the id and as the content; an id that validation rejects
\* with an empty body
OtherRawPosts ==
    {Request("POST", Root, <<>>, <<"A">>, <<>>, ua, RawBody(c)) :
         ua \in {Browser, Curl}, c \in {<<>>, <<" ">>, <<"x">>}}
    \cup {Request("POST", Root, <<>>, <<NBSP, "A", NEL>>, Str_text, Browser, RawBody(<<VT>>))}
    \cup {Request("POST", Root, <<>>, Id_a_b, <<>>, Browser, RawBody(<<>>))}

\* the requests that read, write and remove the note A
Companions ==
    {Request("GET", Root, <<"A">>, <<>>, <<>>, Browser, RawBody(<<>>)),
     Request("POST", Root, <<>>, <<>>, Str_json, Browser, JSONBody(<<"A">>, <<"x">>)),
     Request("POST", Root, <<>>, <<>>, Str_json, Browser, JSONBody(<<"A">>, <<>>))}

Workload(kind, path) == [kind |-> kind, path |-> path]

NoLoad == Workload("", <<>>)

Loads ==
    {Workload(kind, p) : kind \in {"get", "json", "form", "raw"}, p \in Paths}
    \cup {Workload(kind, Root) : kind \in {"other json", "other form", "other raw"}}

\* the requests of a workload
Clients ==
    [l \in Loads |->
        Companions \cup
        (IF l.kind = "get" THEN Gets(l.path)
         ELSE IF l.kind = "json" THEN JSONPosts(l.path)
         ELSE IF l.kind = "form" THEN FormPosts(l.path)
         ELSE IF l.kind = "raw" THEN RawPosts(l.path)
         ELSE IF l.kind = "other json" THEN OtherJSONPosts
         ELSE IF l.kind = "other form" THEN OtherFormPosts
         ELSE OtherRawPosts)]

(***************************************************************************)
(* The calls storage_test.go makes, on the id of a note, on the id of the  *)
(* test and on an id that names no note.                                   *)
(***************************************************************************)
StoreIds == {<<"A">>, <<"A","B","3","K","9">>, Id_dotdot}

\* contents of every length up to the longest
StoreContents == {c \in Contents : c # <<>> /\ \A i \in 1..Len(c) : c[i] = "x"}

\* the ids of notes: one a client chose, and the ids the codec generates
NoteIds == {<<"A">>} \cup {GenerateNoteID(rnd) : rnd \in Draws}

NotePosts ==
    {Request("POST", Root, <<>>, <<>>, Str_json, Browser, JSONBody(id, c)) :
         id \in {<<>>, <<"A">>}, c \in {<<>>, <<"x">>, <<" ", "x">>}}

NoteGets ==
    {Request("GET", Root, id, <<>>, <<>>, ua, RawBody(<<>>)) :
         id \in NoteIds, ua \in {Browser, Curl}}

CallIds == {<<"A">>, <<"B">>}

CallContents == {<<"x">>, <<" ", "x">>}

CallRequests ==
    {Request("GET", Root, id, <<>>, <<>>, ua, RawBody(<<>>)) :
         id \in CallIds, ua \in {Browser, Curl}}
    \cup {Request("POST", Root, <<>>, <<>>, Str_json, Browser, JSONBody(id, c)) :
         id \in CallIds, c \in CallContents \cup {<<>>}}

(***************************************************************************)
(* The state machine.  A handler serves one request.  The server starts a  *)
(* goroutine for every request and takes no lock, so a request is served   *)
(* whatever the other handlers are doing, and the steps of the handlers    *)
(* interleave in every order.  Up to two handlers run at a time, and the   *)
(* clients of a run make up to MaxServed requests.  A step is at most one  *)
(* system call of the disk backend or one request to S3, with what the     *)
(* handler computes before and after it.  On the disk backend os.WriteFile *)
(* is an open, which truncates the file, and a write; os.ReadFile is an    *)
(* open and reads up to the end of the file; os.Remove is one step.  req,  *)
(* resp and calls are the request, the response and the Storage calls of   *)
(* the handler that returned in the last step.                             *)
(***************************************************************************)
\* the key a backend keeps a note under
StorageKey(b, noteID) ==
    IF b = "local" THEN FilepathJoin(dir, noteID) ELSE objectKey(noteID)

\* what a call finds under its key when it is made: nothing, or content
\* shorter than, longer than or as long as the content the call carries
Over(b, st, noteID, content) ==
    LET key == StorageKey(b, noteID)
    IN  IF key \notin DOMAIN st THEN "nothing"
        ELSE IF Len(st[key].data) < Len(content) THEN "shorter"
        ELSE IF Len(st[key].data) > Len(content) THEN "longer"
        ELSE "same"

\* a history that is empty: of the deletes of the requests, of the direct
\* calls, of the POSTs, or the medium before the requests
NoHistory(of) == [of |-> of, by |-> [id \in {} |-> FALSE]]

\* history of the requests: the ids whose latest Write or Delete call to
\* return was a Delete that returned no error, each with whether that Delete
\* found the note stored
Record(del, c) ==
    LET rest == [id \in DOMAIN del \ {c.id} |-> del[id]]
    IN  IF c.op = "Write" THEN rest
        ELSE IF c.op = "Delete" /\ c.err = NoErr
        THEN (c.id :> (c.over # "nothing")) @@ rest
        ELSE del

\* history of the direct calls, per id and while the latest Write or Delete
\* of the id to return returned no error: that call, what it replaced or
\* removed, and how many Deletes in a row it ends (2 stands for two or
\* more).  A Write is kept when no other Write or Delete of the id ran
\* while it did.
Note(h, c) ==
    LET rest == [id \in DOMAIN h \ {c.id} |-> h[id]]
    IN  IF c.op = "Read" THEN h
        ELSE IF c.err # NoErr THEN rest
        ELSE IF c.op = "Write"
        THEN IF c.quiet
             THEN (c.id :> [op |-> "Write", content |-> c.content, over |-> c.over,
                            n |-> 0]) @@ rest
             ELSE rest
        ELSE (c.id :> [op |-> "Delete", content |-> <<>>,
                       over |-> IF c.over = "nothing" THEN "nothing" ELSE "note",
                       n |-> IF c.id \in DOMAIN h /\ h[c.id].op = "Delete"
                             THEN 2 ELSE 1]) @@ rest

\* history of the POSTs, per id: the content of the latest POST of the id
\* whose Storage call returned no error (empty for a Delete), and whether
\* no other handler ran during that POST or a later POST of the id
LastPost(h, c) ==
    LET rest == [id \in DOMAIN h \ {c.id} |-> h[id]]
    IN  IF c.op \in {"Write", "Delete"} /\ c.err = NoErr
        THEN (c.id :> [content |-> c.content, alone |-> c.alone]) @@ rest
        ELSE IF c.op \in {"Write", "Delete"} /\ ~c.alone
        THEN (c.id :> [content |-> <<>>, alone |-> FALSE]) @@ rest
        ELSE h

\* the history after a handler has returned from the calls it made
History(h, made) ==
    IF made = <<>> \/ h.of = "medium" THEN h
    ELSE IF h.of = "deletes" THEN [h EXCEPT !.by = Record(h.by, Head(made))]
    ELSE IF h.of = "calls" THEN [h EXCEPT !.by = Note(h.by, Head(made))]
    ELSE [h EXCEPT !.by = LastPost(h.by, Head(made))]

\* one use of the identifier codec: the function, its argument or the draws
\* of the random source, the id validated or generated, and whether
\* ValidateNoteID accepts that id
Codec(op, id, rnd, ok) == [op |-> op, id |-> id, rnd |-> rnd, ok |-> ok]

NoCodec == Codec("", <<>>, <<>>, FALSE)

\* the handlers that run at a time
Callers == {"c1", "c2"}

\* the file an open descriptor refers to: the file of the note's path, or,
\* once os.Remove has unlinked that file, the unlinked file and its data
NoOrphan == [is |-> FALSE, data |-> <<>>]

Orphan(data) == [is |-> TRUE, data |-> data]

\* the handler the mux of the hosting mode routes a method to: the HTTP
\* server (main.go), which runs on the disk backend, routes GET and POST; the
\* Lambda adapter (lambda.go), which runs on S3, routes OPTIONS as well
Route(b, method) ==
    IF method = "GET" THEN "HandleGet"
    ELSE IF method = "POST" THEN "HandlePost"
    ELSE IF method = "OPTIONS" /\ b = "s3" THEN "HandlePost"
    ELSE "MethodNotAllowed"

\* a handler that serves no request
IdleCaller ==
    [req |-> NoRequest, canceled |-> FALSE, pc |-> "idle", made |-> <<>>,
     op |-> "", id |-> <<>>, content |-> <<>>, fault |-> "none",
     was |-> "", alone |-> TRUE, quiet |-> TRUE, orphan |-> NoOrphan,
     result |-> <<>>, err |-> NoErr, resp |-> NoResponse]

\* a handler that makes no Storage call
NoCall == Call("", <<>>, <<>>, "none", NoErr)

\* the calls a handler is to make, before they have returned
Pending(callsMade) ==
    [i \in 1..Len(callsMade) |->
        [callsMade[i] EXCEPT !.err = NoErr,
                             !.content = IF callsMade[i].op = "Read" THEN <<>> ELSE @]]

\* a handler entered with a request (none for a direct call of the Storage
\* interface), from what the handler computes for it (out): whether the
\* request's context is canceled before the call completes; where the call
\* stands (pc); the calls of the handler, the first with its method, its
\* arguments and the fault the environment injects; what the call found
\* under its key (was); the file of its open descriptor; what the call has
\* read and what it returned; the response, which for a GET is written from
\* what the Read returns
Caller(b, st, r, canceled, out) ==
    LET c == IF out.calls = <<>> THEN NoCall ELSE Head(out.calls)
    IN  [IdleCaller EXCEPT
            !.req = r, !.canceled = canceled, !.pc = "called",
            !.made = Pending(out.calls),
            !.op = c.op, !.id = c.id,
            !.content = IF c.op = "Write" THEN c.content ELSE <<>>,
            !.fault = c.fault,
            !.was = IF c.op = "" THEN "" ELSE Over(b, st, c.id, c.content),
            !.resp = IF c.op = "Read" THEN NoResponse ELSE out.resp]

\* the handler is between two system calls of its Storage call
InFlight(c) == c.pc \in {"opened", "reading"}

\* the call has returned to the handler
Returned(c, result, err) ==
    [c EXCEPT !.pc = "returned", !.result = result, !.err = err]

\* the faults the environment injects at a step: when a call is made, none
\* or a failure before the call has any effect; at the write of os.WriteFile,
\* none or a failure before any byte or after all but the last byte
FaultsAt(pc) ==
    IF pc = "opened" THEN {"none", "trunc", "short"} ELSE {"none", "open"}

\* os.WriteFile, first step: OpenFile with O_WRONLY|O_CREATE|O_TRUNC leaves
\* the file empty
OpenTrunc(st, noteID, fault) ==
    LocalStorageWrite(st, noteID, <<>>, IF fault = "open" THEN "open" ELSE "none")

\* os.WriteFile, second step: f.Write puts the data at offset 0 of the file
\* the descriptor refers to, all of it or, with a fault, none of it or all
\* but the last byte
WriteAt(st, noteID, content, fault) ==
    LET filePath == FilepathJoin(dir, noteID)
        old      == st[filePath].data
        written  == IF fault = "trunc" THEN <<>>
                    ELSE IF fault = "short" THEN SubSeq(content, 1, Len(content) - 1)
                    ELSE content
    IN  [store |-> IF filePath \notin DOMAIN st \/ st[filePath].dir THEN st
                   ELSE Put(st, filePath,
                            FileEntry(written \o SubSeq(old, Len(written) + 1, Len(old)))),
         err   |-> IF fault \in {"trunc", "short"} THEN "failed to write note"
                   ELSE NoErr]

\* os.ReadFile, a read: the bytes of the descriptor's file from the offset
\* reached to the end of the file as it is now
ReadAt(st, c) ==
    LET filePath == FilepathJoin(dir, c.id)
        data == IF c.orphan.is THEN c.orphan.data
                ELSE IF filePath \in DOMAIN st THEN st[filePath].data
                ELSE <<>>
    IN  SubSeq(data, Len(c.result) + 1, Len(data))

\* a call made in one step of the medium.  LocalStorage does not look at
\* ctx.  The S3 client is given ctx: with ctx canceled it returns an error,
\* and the request has reached the bucket (landed) or has not.
CallOut(b, st, c, landed) ==
    LET fault == IF b = "s3" /\ c.canceled THEN "open" ELSE c.fault
        rd == StorageRead(b, st, c.id, fault)
        wr == StorageWrite(b, st, c.id, c.content, fault)
        de == StorageDelete(b, st, c.id, fault)
        wrLanded == StorageWrite(b, st, c.id, c.content, "none").store
        deLanded == StorageDelete(b, st, c.id, "none").store
        reached  == b = "s3" /\ c.canceled /\ landed
    IN  IF c.op = "Read"
        THEN [store |-> st, result |-> rd.content, err |-> rd.err]
        ELSE IF c.op = "Write"
        THEN [store |-> IF reached THEN wrLanded ELSE wr.store,
              result |-> <<>>, err |-> wr.err]
        ELSE [store |-> IF reached THEN deLanded ELSE de.store,
              result |-> <<>>, err |-> de.err]

\* the first step of a handler: it makes no call and returns; or it opens
\* the file of a disk write or of a disk read; or it makes a call that is
\* one step: os.Remove, a disk read that finds no file to open, and every
\* call of the S3 client
FirstStep(b, st, c, landed) ==
    LET filePath == FilepathJoin(dir, c.id)
        o   == OpenTrunc(st, c.id, c.fault)
        rd  == LocalStorageRead(st, c.id, c.fault)
        out == CallOut(b, st, c, landed)
    IN  IF c.op = ""
        THEN [store |-> st, c |-> Returned(c, <<>>, NoErr)]
        ELSE IF b = "local" /\ c.op = "Write"
        THEN [store |-> o.store,
              c |-> IF o.err = NoErr THEN [c EXCEPT !.pc = "opened"]
                    ELSE Returned(c, <<>>, o.err)]
        ELSE IF b = "local" /\ c.op = "Read"
        THEN [store |-> st,
              c |-> IF c.fault = "none" /\ filePath \in DOMAIN st /\ ~st[filePath].dir
                    THEN [c EXCEPT !.pc = "reading"]
                    ELSE Returned(c, rd.content, rd.err)]
        ELSE [store |-> out.store, c |-> Returned(c, out.result, out.err)]

\* the handler whose write meets a fault: the call fails, and HandlePost
\* answers that the note was not saved
Struck(c, fault) ==
    IF fault = "none" THEN c
    ELSE [c EXCEPT !.fault = fault,
                   !.made = [i \in 1..Len(c.made) |-> [c.made[i] EXCEPT !.fault = fault]],
                   !.resp = IF c.req = NoRequest THEN NoResponse
                            ELSE writeJSONError(500, "Failed to save note")]

\* os.Remove has unlinked the file of the id
Unlinked(b, before, after, noteID) ==
    /\ b = "local"
    /\ StorageKey(b, noteID) \in DOMAIN before
    /\ StorageKey(b, noteID) \notin DOMAIN after

\* the record of the calls of a handler that returns: the first call with
\* what it returned and what it found
Calls(c) ==
    [i \in 1..Len(c.made) |->
        IF i = 1
        THEN [c.made[i] EXCEPT !.content = IF c.op = "Read" THEN c.result ELSE @,
                               !.err = c.err, !.alone = c.alone, !.quiet = c.quiet,
                               !.over = c.was]
        ELSE [c.made[i] EXCEPT !.alone = c.alone, !.quiet = c.quiet]]

\* the response of a handler that returns: HandleGet presents what the
\* Read returned
Answer(c) ==
    IF c.req # NoRequest /\ c.op = "Read"
    THEN GetResponse(c.req, c.id, [content |-> c.result, err |-> c.err])
    ELSE c.resp

\* the call of c writes or removes what is stored under the id of the call
\* of d; a call that fails before it has any effect and a write to a file
\* that os.Remove has unlinked do not
Disturbs(c, d) ==
    /\ c.op \in {"Write", "Delete"}
    /\ c.id = d.id
    /\ c.fault # "open"
    /\ ~c.orphan.is

\* one step of the handler p: the medium and the handler after the step.
\* When the call has returned the handler writes the response and returns.
\* os.Remove leaves the file it unlinks to the descriptors open on it.
Move(p, st, c) ==
    /\ store' = st
    /\ procs' = [q \in Callers |->
          IF q = p
          THEN IF c.pc = "returned"
               THEN [c EXCEPT !.pc = "done", !.req = NoRequest, !.resp = NoResponse,
                              !.made = <<>>, !.was = ""]
               ELSE c
          ELSE IF ~InFlight(procs[q]) THEN procs[q]
          ELSE [procs[q] EXCEPT
                   !.alone = procs[q].alone /\ c.alone,
                   !.quiet = procs[q].quiet /\ ~Disturbs(c, procs[q]),
                   !.orphan = IF /\ Unlinked(backend, store, st, c.id)
                                 /\ procs[q].id = c.id
                                 /\ ~procs[q].orphan.is
                              THEN Orphan(store[StorageKey(backend, c.id)].data)
                              ELSE procs[q].orphan]]
    /\ req' = IF c.pc = "returned" THEN c.req ELSE NoRequest
    /\ resp' = IF c.pc = "returned" THEN Answer(c) ELSE NoResponse
    /\ calls' = IF c.pc = "returned" THEN Calls(c) ELSE <<>>
    /\ hist' = IF c.pc = "returned" THEN History(hist, Calls(c)) ELSE hist
    /\ UNCHANGED <<backend, codec, load>>

\* the second step of a disk write, with the fault it meets.  Data written
\* to an unlinked file is lost.
WriteFile ==
    \E p \in Callers :
        /\ procs[p].pc = "opened"
        /\ UNCHANGED served
        /\ \E fault \in FaultsAt("opened") :
           \E c \in {Struck(procs[p], fault)} :
           \E w \in {WriteAt(store, c.id, c.content, fault)} :
               Move(p, IF c.orphan.is THEN store ELSE w.store,
                    Returned(c, <<>>, w.err))

\* os.ReadFile reads until a read returns no byte
ReadChunk ==
    \E p \in Callers :
        /\ procs[p].pc = "reading"
        /\ UNCHANGED served
        /\ \E data \in {ReadAt(store, procs[p])} :
               Move(p, store,
                    IF data = <<>> THEN Returned(procs[p], procs[p].result, NoErr)
                    ELSE [procs[p] EXCEPT !.result = procs[p].result \o data])

\* the handlers that have returned are gone with their requests, their
\* responses and their records of calls; the medium stays
Return ==
    /\ \E p \in Callers : procs[p].pc = "done"
    /\ procs' = [p \in Callers |->
                    IF procs[p].pc = "done" THEN IdleCaller ELSE procs[p]]
    /\ req' = NoRequest
    /\ resp' = NoResponse
    /\ calls' = <<>>
    /\ UNCHANGED <<backend, store, hist, codec, load, served>>

\* no other handler is between two steps of its call
Alone(p) == \A q \in Callers \ {p} : ~InFlight(procs[q])

\* no other handler is between two steps of a call that writes or removes
\* what is stored under the id
Quiet(p, c) == \A q \in Callers \ {p} : ~(InFlight(procs[q]) /\ Disturbs(procs[q], c))

\* the handler p can be entered: the clients have a request left to send,
\* p is the first handler that is free, and the handlers that have returned
\* are gone
Enterable(p) ==
    /\ served < MaxServed
    /\ procs[p].pc = "idle"
    /\ p = "c1" \/ procs["c1"].pc # "idle"
    /\ \A q \in Callers : procs[q].pc # "done"

\* a handler is entered, whatever the other handler is doing, and takes its
\* first step
Enter(p, entered, landed) ==
    /\ served' = served + 1
    /\ \E c \in {[entered EXCEPT !.alone = Alone(p), !.quiet = Quiet(p, entered)]} :
           \E first \in {FirstStep(backend, store, c, landed)} :
               Move(p, first.store, first.c)

(***************************************************************************)
(* The handlers behind the mux of the hosting mode.  The clients of a run  *)
(* send requests of one workload (load), up to MaxServed of them (served   *)
(* counts them), in any order and with any overlap.                        *)
(***************************************************************************)
Init ==
    /\ backend \in {"local", "s3"}
    /\ load \in Loads
    /\ store = NewStorage(backend)
    /\ req = NoRequest
    /\ resp = NoResponse
    /\ calls = <<>>
    /\ hist = NoHistory("deletes")
    /\ codec = NoCodec
    /\ procs = [p \in Callers |-> IdleCaller]
    /\ served = 0

HandleGet ==
    \E p \in Callers :
        /\ Enterable(p)
        /\ \E r \in Clients[load], fault \in FaultsAt("called") :
               /\ Route(backend, r.method) = "HandleGet"
               /\ \E out \in {HandleGetOut(backend, store, r, fault)} :
                      Enter(p, Caller(backend, store, r, FALSE, out), FALSE)

HandlePost ==
    \E p \in Callers :
        /\ Enterable(p)
        /\ \E r \in Clients[load], rnd \in Draws, fault \in FaultsAt("called") :
               /\ Route(backend, r.method) = "HandlePost"
               /\ \E out \in {HandlePostOut(backend, store, r, rnd, fault)} :
                      Enter(p, Caller(backend, store, r, FALSE, out), FALSE)

\* the mux answers a method it routes to no handler
MethodNotAllowed ==
    \E p \in Callers :
        /\ Enterable(p)
        /\ \E r \in Clients[load] :
               /\ Route(backend, r.method) = "MethodNotAllowed"
               /\ Enter(p, Caller(backend, store, r, FALSE,
                                   Outcome(HttpError("", "Method not allowed", 405),
                                           <<>>, store)),
                        FALSE)

Next == HandleGet \/ HandlePost \/ MethodNotAllowed \/ WriteFile \/ ReadChunk \/ Return

Spec == Init /\ [][Next]_vars

(***************************************************************************)
(* The Storage interface called directly, as storage_test.go does.         *)
(***************************************************************************)
InitStorage ==
    /\ backend \in {"local", "s3"}
    /\ load = NoLoad
    /\ store = NewStorage(backend)
    /\ req = NoRequest
    /\ resp = NoResponse
    /\ calls = <<>>
    /\ hist = NoHistory("calls")
    /\ codec = NoCodec
    /\ procs = [p \in Callers |-> IdleCaller]
    /\ served = 0

\* a direct call is entered
Direct(p, c) ==
    Enter(p, Caller(backend, store, NoRequest, FALSE,
                    Outcome(NoResponse, <<c>>, store)), FALSE)

Write ==
    \E p \in Callers :
        /\ Enterable(p)
        /\ \E noteID \in StoreIds, content \in StoreContents,
              fault \in FaultsAt("called") :
               Direct(p, Call("Write", noteID, content, fault, NoErr))

Read ==
    \E p \in Callers :
        /\ Enterable(p)
        /\ \E noteID \in StoreIds, fault \in FaultsAt("called") :
               Direct(p, Call("Read", noteID, <<>>, fault, NoErr))

Delete ==
    \E p \in Callers :
        /\ Enterable(p)
        /\ \E noteID \in StoreIds, fault \in FaultsAt("called") :
               Direct(p, Call("Delete", noteID, <<>>, fault, NoErr))

NextStorage == Write \/ Read \/ Delete \/ WriteFile \/ ReadChunk \/ Return

SpecStorage == InitStorage /\ [][NextStorage]_vars

(***************************************************************************)
(* The life of a note: POSTs and GETs of note ids, with the history of the *)
(* successful POSTs.                                                       *)
(***************************************************************************)
InitLifecycle ==
    /\ backend \in {"local", "s3"}
    /\ load = NoLoad
    /\ store = NewStorage(backend)
    /\ req = NoRequest
    /\ resp = NoResponse
    /\ calls = <<>>
    /\ hist = NoHistory("posts")
    /\ codec = NoCodec
    /\ procs = [p \in Callers |-> IdleCaller]
    /\ served = 0

GetNote ==
    \E p \in Callers :
        /\ Enterable(p)
        /\ \E r \in NoteGets, fault \in FaultsAt("called") :
               \E out \in {HandleGetOut(backend, store, r, fault)} :
                   Enter(p, Caller(backend, store, r, FALSE, out), FALSE)

PostNote ==
    \E p \in Callers :
        /\ Enterable(p)
        /\ \E r \in NotePosts, rnd \in Draws, fault \in FaultsAt("called") :
               \E out \in {HandlePostOut(backend, store, r, rnd, fault)} :
                   Enter(p, Caller(backend, store, r, FALSE, out), FALSE)

NextLifecycle == GetNote \/ PostNote \/ WriteFile \/ ReadChunk \/ Return

SpecLifecycle == InitLifecycle /\ [][NextLifecycle]_vars

(***************************************************************************)
(* Two requests, each served once, on a medium that holds a note or none,  *)
(* with a context that is canceled during the call or is not.  hist is the *)
(* medium as it was before the requests.                                   *)
(***************************************************************************)
\* the medium before the requests: new, or holding one note
StoresBefore(b) ==
    {NewStorage(b)} \cup
    {StorageWrite(b, NewStorage(b), id, c, "none").store :
         id \in CallIds, c \in {<<"x">>, <<"x", "x">>}}

InitCalls ==
    /\ backend \in {"local", "s3"}
    /\ load = NoLoad
    /\ store \in StoresBefore(backend)
    /\ hist = [of |-> "medium", by |-> store]
    /\ req = NoRequest
    /\ resp = NoResponse
    /\ calls = <<>>
    /\ codec = NoCodec
    /\ procs = [p \in Callers |-> IdleCaller]
    /\ served = 0

\* a handler is given a request and takes its first step; the context of
\* the request is canceled during the call or is not.  The S3 client
\* returns an error for a canceled context.
BeginCall ==
    \E p \in Callers :
        /\ procs[p].pc = "idle"
        /\ p = "c1" \/ procs["c1"].pc # "idle"
        /\ \E r \in CallRequests, canceled \in BOOLEAN, landed \in BOOLEAN :
            \E fault \in {IF backend = "s3" /\ canceled THEN "open" ELSE "none"} :
            \E out \in {IF r.method = "GET"
                        THEN HandleGetOut(backend, store, r, fault)
                        ELSE HandlePostOut(backend, store, r,
                                           CHOOSE rnd \in Draws : TRUE, fault)} :
                Enter(p, Caller(backend, store, r, canceled, out), landed)

NextCalls == BeginCall \/ WriteFile \/ ReadChunk

SpecCalls == InitCalls /\ [][NextCalls]_vars

(***************************************************************************)
(* The identifier codec called directly, as the tests of utils.go do.      *)
(***************************************************************************)
CodecAlphabet == {"A", "z", "0", "/", ".", "-", "_", "@", " ", "\n"}

CodecIds == Strings(CodecAlphabet, MaxIdLen)

\* draws of the random source in which one position takes every index of
\* the charset
CodecDraws ==
    {[i \in 1..length |-> IF i = p THEN k ELSE j] :
         p \in 1..length, k \in 0..(Len(charset) - 1), j \in RandInts}

Validate ==
    /\ \E id \in CodecIds :
         codec' = Codec("ValidateNoteID", id, <<>>, ValidateNoteID(id))
    /\ UNCHANGED <<backend, store, req, resp, calls, hist, procs, load, served>>

Generate ==
    /\ \E rnd \in CodecDraws :
         codec' = Codec("GenerateNoteID", GenerateNoteID(rnd), rnd,
                        ValidateNoteID(GenerateNoteID(rnd)))
    /\ UNCHANGED <<backend, store, req, resp, calls, hist, procs, load, served>>

NextCodec == Validate \/ Generate

InitCodec ==
    /\ backend \in {"local", "s3"}
    /\ load = NoLoad
    /\ store = NewStorage(backend)
    /\ req = NoRequest
    /\ resp = NoResponse
    /\ calls = <<>>
    /\ hist = NoHistory("deletes")
    /\ codec = NoCodec
    /\ procs = [p \in Callers |-> IdleCaller]
    /\ served = 0

SpecCodec == InitCodec /\ [][NextCodec]_vars

(***************************************************************************)
(* Vocabulary of the properties                                            *)
(***************************************************************************)
\* non-empty and every character in [A-Za-z0-9]
WellFormedId(id) == id # <<>> /\ \A i \in 1..Len(id) : id[i] \in Alnum

\* empty or white space only
Blank(content) == \A i \in 1..Len(content) : content[i] \in WhiteSpace

\* the request is a POST whose body was read and parsed
ParsedPost(r) == r.method = "POST" /\ ~r.bodyErr /\ parseNoteRequest(r).err = NoErr

\* the id and the content a parsed POST carries
PostId(r) == parseNoteRequest(r).req.NoteID

PostContent(r) == parseNoteRequest(r).req.Content

\* the id a success response of HandlePost reports: the JSON noteId, the id
\* of the "OK: <id>" line, or the last path segment of the URL line
RECURSIVE LastSegment(_)
LastSegment(str) ==
    IF Index(str, <<"/">>) = -1 THEN str
    ELSE LastSegment(SubSeq(str, Index(str, <<"/">>) + 2, Len(str)))

ReportedId(response) ==
    IF response.kind = "json" THEN response.noteId
    ELSE LET line == TrimRight(response.text, {"\n"})
         IN  IF SubSeq(line, 1, 4) = <<"O","K",":"," ">>
             THEN SubSeq(line, 5, Len(line))
             ELSE LastSegment(line)

\* the content the medium holds for an id, empty when it holds no note
Stored(b, st, id) ==
    LET key == StorageKey(b, id)
    IN  IF key \in DOMAIN st /\ ~st[key].dir THEN st[key].data ELSE <<>>

\* the request is a POST that is parsed, carries no id and carries content
\* that is not blank: HandlePost generates an id for it
GeneratesId(r) ==
    ParsedPost(r) /\ TrimSpace(PostId(r)) = <<>> /\ ~Blank(PostContent(r))

(***************************************************************************)
(* Properties                                                              *)
(***************************************************************************)
\* C1: every id passed to Storage.Read, Storage.Write or Storage.Delete by
\* HandleGet or HandlePost is non-empty and alphanumeric.
C1_StorageIdsValid ==
    \A i \in 1..Len(calls) : WellFormedId(calls[i].id)

\* C2: a POST whose id, trimmed, is non-empty and not alphanumeric is
\* answered 400 with success=false and makes no Storage call; the medium is
\* the same before and after the request.
C2_InvalidIdRejected ==
    [][(ParsedPost(req')
        /\ TrimSpace(PostId(req')) # <<>>
        /\ ~WellFormedId(TrimSpace(PostId(req'))))
       => (/\ resp'.status = 400
           /\ resp'.kind = "json"
           /\ resp'.success = FALSE
           /\ calls' = <<>>
           /\ store' = store)]_vars

\* C3: a successful POST with blank content makes one Storage.Delete call
\* and no Storage.Write, and the note is gone; every read of an id made after
\* the Delete of such a POST has returned and before the next Write of the
\* id is made (no Write or Delete of the id runs during the read) returns
\* empty content, and a browser is shown empty content.
C3_DeleteByEmptyWrite ==
    /\ (ParsedPost(req) /\ Blank(PostContent(req)) /\ resp.status = 200)
       => (/\ Len(calls) = 1
           /\ calls[1].op = "Delete"
           /\ WellFormedId(calls[1].id)
           /\ Stored(backend, store, calls[1].id) = <<>>
           /\ StorageKey(backend, calls[1].id) \notin DOMAIN store)
    /\ \A i \in 1..Len(calls) :
         (calls[i].op = "Read" /\ calls[i].quiet /\ calls[i].id \in DOMAIN hist.by)
         => (/\ calls[i].content = <<>>
             /\ resp.kind = "html" => resp.text = <<>>)

C3_Witness ==
    /\ req.method = "GET"
    /\ Len(calls) = 1
    /\ calls[1].op = "Read"
    /\ calls[1].err = NoErr
    /\ calls[1].quiet
    /\ calls[1].id \in DOMAIN hist.by
    /\ hist.by[calls[1].id]
    /\ resp.status = 200
    /\ resp.kind = "html"
    /\ resp.text = <<>>

\* C4: a POST without id (empty once trimmed) and with non-blank content
\* that is answered 200 (a POST whose Write fails is answered 500) reports
\* an id of 5 alphanumeric characters, written by one Storage.Write; a read
\* of that id right after returns exactly the posted content.
C4_AutoGenerate ==
    (GeneratesId(req) /\ resp.status = 200)
    => (/\ resp.kind = "json" => resp.success
        /\ Len(ReportedId(resp)) = 5
        /\ WellFormedId(ReportedId(resp))
        /\ Len(calls) = 1
        /\ calls[1].op = "Write"
        /\ calls[1].id = ReportedId(resp)
        /\ StorageRead(backend, store, ReportedId(resp), "none")
             = [content |-> PostContent(req), err |-> NoErr])

\* C5 as stated: a POST with content "x" and the id "", "../../etc/passwd"
\* or "a b" is rejected before any Storage call.
C5_EmptyIdRejected ==
    (ParsedPost(req) /\ PostContent(req) = <<"x">>
     /\ PostId(req) \in {<<>>, Id_passwd, Id_a_b})
    => (resp.status = 400 /\ calls = <<>>)

\* C5 amended: a POST with content "x" and the id "../../etc/passwd" or
\* "a b" is rejected with 400 before any Storage call; with the empty id it
\* is not rejected: an id is generated and one Storage.Write is made with it.
C5_ValidationGate ==
    /\ (ParsedPost(req) /\ PostContent(req) = <<"x">>
        /\ PostId(req) \in {Id_passwd, Id_a_b})
       => (resp.status = 400 /\ calls = <<>>)
    /\ (ParsedPost(req) /\ PostContent(req) = <<"x">> /\ PostId(req) = <<>>)
       => (/\ resp.status # 400
           /\ Len(calls) = 1
           /\ calls[1].op = "Write"
           /\ calls[1].content = <<"x">>
           /\ Len(calls[1].id) = length
           /\ WellFormedId(calls[1].id))

C5_Witness ==
    /\ ParsedPost(req)
    /\ PostContent(req) = <<"x">>
    /\ PostId(req) = Id_passwd
    /\ resp.status = 400
    /\ calls = <<>>

\* C6 as stated: on both backends, a Storage.Read of an id made after a
\* Write of the id has returned no error, with no other Write or Delete of
\* the id made or under way from the call of the Write to the return of the
\* Read, returns exactly the content written and no error, whatever the
\* Write replaced.
C6_ReadAfterWriteNoError ==
    \A i \in 1..Len(calls) :
        (calls[i].op = "Read" /\ calls[i].quiet
         /\ calls[i].id \in DOMAIN hist.by /\ hist.by[calls[i].id].op = "Write")
        => (calls[i].err = NoErr /\ calls[i].content = hist.by[calls[i].id].content)

\* C6 amended: such a Read returns exactly the content written and no
\* error, unless the Read itself meets an I/O fault: then it returns an
\* error and no content.
C6_ReadAfterWrite ==
    \A i \in 1..Len(calls) :
        (calls[i].op = "Read" /\ calls[i].quiet
         /\ calls[i].id \in DOMAIN hist.by /\ hist.by[calls[i].id].op = "Write")
        => IF calls[i].fault = "none"
           THEN calls[i].err = NoErr /\ calls[i].content = hist.by[calls[i].id].content
           ELSE calls[i].err # NoErr /\ calls[i].content = <<>>

C6_Witness ==
    /\ Len(calls) = 1
    /\ calls[1].op = "Read"
    /\ calls[1].quiet
    /\ calls[1].fault = "none"
    /\ calls[1].id \in DOMAIN hist.by
    /\ hist.by[calls[1].id].op = "Write"
    /\ hist.by[calls[1].id].over = "longer"
    /\ calls[1].content = <<"x">>
    /\ calls[1].err = NoErr

\* C7: a Storage.Read that meets no I/O fault and runs while no other call
\* does, of an id under whose key the medium holds no note, returns the
\* empty string and no error.
C7_MissReturnsEmpty ==
    \A i \in 1..Len(calls) :
        (calls[i].op = "Read" /\ calls[i].fault = "none" /\ calls[i].alone
         /\ StorageKey(backend, calls[i].id) \notin Notes(store))
        => (calls[i].err = NoErr /\ calls[i].content = <<>>)

C9_ReadAfterDeleteNoError ==
    \A i \in 1..Len(calls) :
        (calls[i].op = "Read" /\ calls[i].quiet
         /\ calls[i].id \in DOMAIN hist.by /\ hist.by[calls[i].id].op = "Delete")
        => (calls[i].err = NoErr /\ calls[i].content = <<>>)

\* C9 amended: such a Read returns the empty string, and no error unless
\* the Read itself meets an I/O fault; with or without a fault it returns
\* what the same Read returns on a medium that never held a note.
C9_ReadAfterDelete ==
    \A i \in 1..Len(calls) :
        (calls[i].op = "Read" /\ calls[i].quiet
         /\ calls[i].id \in DOMAIN hist.by /\ hist.by[calls[i].id].op = "Delete")
        => (/\ calls[i].content = <<>>
            /\ calls[i].err = NoErr <=> calls[i].fault = "none"
            /\ StorageRead(backend, NewStorage(backend), calls[i].id, calls[i].fault)
                 = [content |-> calls[i].content, err |-> calls[i].err])

C9_Witness ==
    /\ Len(calls) = 1
    /\ calls[1].op = "Read"
    /\ calls[1].quiet
    /\ calls[1].fault = "none"
    /\ calls[1].id \in DOMAIN hist.by
    /\ hist.by[calls[1].id].op = "Delete"
    /\ hist.by[calls[1].id].over = "note"
    /\ calls[1].content = <<>>
    /\ calls[1].err = NoErr

\* C10 as stated: every GET with a non-empty id whose Storage.Read returns
\* no error is answered 200 and presents the stored content, curl or not.
\* What the Read returns is the content the medium holds under the id when
\* no Write or Delete of the id runs during the Read.
C10_GetAlways200 ==
    (req.method = "GET" /\ Len(calls) = 1 /\ calls[1].err = NoErr)
    => /\ calls[1].quiet => calls[1].content = Stored(backend, store, calls[1].id)
       /\ resp.status = 200
       /\ resp.text = calls[1].content

\* C10 amended: every GET with a non-empty id whose Storage.Read returns no
\* error is answered 200 and presents the stored content, also when that
\* content is empty, except that a curl caller is answered 404 when the
\* content is empty.
C10_GetPresentsContent ==
    (req.method = "GET" /\ Len(calls) = 1 /\ calls[1].err = NoErr)
    => /\ calls[1].quiet => calls[1].content = Stored(backend, store, calls[1].id)
       /\ IF req.userAgent = Curl /\ calls[1].content = <<>>
          THEN resp.status = 404 /\ resp.kind = "error"
          ELSE /\ resp.status = 200
               /\ resp.text = calls[1].content
               /\ resp.kind = IF req.userAgent = Curl THEN "text" ELSE "html"

C10_Witness ==
    /\ req.method = "GET"
    /\ req.userAgent = Browser
    /\ Len(calls) = 1
    /\ calls[1].err = NoErr
    /\ calls[1].quiet
    /\ WellFormedId(calls[1].id)
    /\ Stored(backend, store, calls[1].id) = <<>>
    /\ resp.status = 200
    /\ resp.kind = "html"
    /\ resp.text = <<>>

\* the request is served by HandleGet or HandlePost
Handled(r) == r # NoRequest /\ Route(backend, r.method) # "MethodNotAllowed"

\* a GET that carries an id, as the query parameter note or in the path
GetWithId(r) == r.method = "GET" /\ (r.note # <<>> \/ extractPathNoteID(r) # <<>>)

\* the response HandlePost writes when it has made its Storage call: the
\* success response, or the 500 of a call that failed
AfterStorageCall(response) ==
    \/ response.status = 200
    \/ /\ response.status = 500
       /\ response.error \in {"Failed to save note", "Failed to delete note"}

\* C11 as stated: every request served by HandleGet or HandlePost makes
\* exactly one Storage call.
C11_ExactlyOneCall ==
    Handled(req) => Len(calls) = 1

\* C11 amended: a request served by HandleGet or HandlePost makes at most
\* one Storage call: a GET makes exactly one when it carries an id and none
\* when it does not; a POST makes exactly one when it is answered 200 or
\* with the 500 of a call that failed, and none otherwise; an OPTIONS
\* request makes none.
C11_OneCallWhenIdUsable ==
    Handled(req)
    => /\ Len(calls) <= 1
       /\ req.method = "GET" => (Len(calls) = 1 <=> GetWithId(req))
       /\ req.method = "POST" => (Len(calls) = 1 <=> AfterStorageCall(resp))
       /\ req.method = "OPTIONS" => calls = <<>>

C11_Witness ==
    /\ req.method = "GET"
    /\ req.path = Root
    /\ req.note = <<>>
    /\ resp.status = 200
    /\ resp.kind = "html"
    /\ calls = <<>>

\* C12: a request makes at most one Storage call, so a failed call is not
\* made again; the calls of a POST are Write or Delete, the calls of a GET
\* are Read, and no step of a GET changes the medium.
C12_OneMutationNoRetry ==
    [][/\ Len(calls') <= 1
       /\ req'.method = "POST"
          => \A i \in 1..Len(calls') : calls'[i].op \in {"Write", "Delete"}
       /\ req'.method = "GET"
          => (/\ \A i \in 1..Len(calls') : calls'[i].op = "Read"
              /\ store' = store)
       /\ \A p \in Callers :
             (/\ procs[p].req.method = "GET" \/ procs'[p].req.method = "GET"
              /\ <<procs'[p].pc, procs'[p].result>> # <<procs[p].pc, procs[p].result>>)
             => store' = store]_vars

C12_Witness ==
    /\ req.method = "POST"
    /\ Len(calls) = 1
    /\ calls[1].op = "Write"
    /\ calls[1].err # NoErr
    /\ resp.status = 500

\* C13: when a Storage call of a request returns an error, the response is
\* 500 with a structured error body (success=false and an error message),
\* the message is a fixed generic string and not the error of the backend.
C13_StorageErrorStructured500 ==
    \A i \in 1..Len(calls) :
        calls[i].err # NoErr
        => (/\ resp.status = 500
            /\ resp.kind = "json"
            /\ resp.success = FALSE
            /\ resp.error \in {"Internal server error", "Failed to save note",
                               "Failed to delete note"}
            /\ resp.error # calls[i].err)

\* C14: a POST with a JSON content type whose body is not a JSON document is
\* answered 400 with success=false and no id, and makes no Storage call.
C14_MalformedJSONRejected ==
    (/\ req.method = "POST"
     /\ ~req.bodyErr
     /\ Contains(req.contentType, Str_json)
     /\ ~req.body.json.ok)
    => (/\ resp.status = 400
        /\ resp.kind = "json"
        /\ resp.success = FALSE
        /\ resp.noteId = <<>>
        /\ calls = <<>>)

\* a POST whose body was read, by the branch of parseNoteRequest it takes
JSONPost(r) == r.method = "POST" /\ ~r.bodyErr /\ Contains(r.contentType, Str_json)

FormPost(r) ==
    /\ r.method = "POST" /\ ~r.bodyErr
    /\ ~Contains(r.contentType, Str_json)
    /\ Contains(r.contentType, Str_form)

RawPost(r) ==
    /\ r.method = "POST" /\ ~r.bodyErr
    /\ ~Contains(r.contentType, Str_json)
    /\ ~Contains(r.contentType, Str_form)

\* the first non-empty string of a sequence of candidates, else the empty string
RECURSIVE FirstNonEmpty(_)
FirstNonEmpty(candidates) ==
    IF candidates = <<>> THEN <<>>
    ELSE IF Head(candidates) # <<>> THEN Head(candidates)
    ELSE FirstNonEmpty(Tail(candidates))

\* the User-Agent contains "curl" in any letter case
MentionsCurl(ua) ==
    \E i \in 1..(Len(ua) - 3) : ToLower(SubSeq(ua, i, i + 3)) = Str_curl

\* C15: for a form-encoded or raw-body POST the id parseNoteRequest chooses
\* is the first non-empty of the query parameter noteId, the body field
\* noteId and the id of the path.
C15_IdPrecedence ==
    (FormPost(req) \/ RawPost(req))
    => PostId(req) = FirstNonEmpty(<<req.noteId, req.body.form.noteId,
                                     extractPathNoteID(req)>>)

\* C16: for a POST whose content type is neither JSON nor form-encoded the
\* content is the raw body unchanged and the id is the query parameter
\* noteId when non-empty, else the id of the path; a Storage.Write made for
\* it carries that content and that id trimmed.
C16_RawBodyRequest ==
    RawPost(req)
    => LET id == IF req.noteId # <<>> THEN req.noteId ELSE extractPathNoteID(req)
       IN  /\ PostContent(req) = req.body.raw
           /\ PostId(req) = id
           /\ \A i \in 1..Len(calls) :
                /\ calls[i].op = "Write" => calls[i].content = req.body.raw
                /\ TrimSpace(id) # <<>> => calls[i].id = TrimSpace(id)

C16_Witness ==
    /\ RawPost(req)
    /\ req.contentType = <<>>
    /\ req.noteId = <<>>
    /\ req.path = Str_noteid \o <<"A">>
    /\ req.body.raw = <<"x">>
    /\ Len(calls) = 1
    /\ calls[1].op = "Write"
    /\ calls[1].id = <<"A">>
    /\ calls[1].content = <<"x">>

\* C17: for a form-encoded POST whose body parses as a form with a text or a
\* noteId field, the content is the value of text and the id the value of
\* noteId; in every other case the content is the raw body; a Storage.Write
\* made for the request carries that content.
C17_FormRequest ==
    FormPost(req)
    => LET fields == /\ req.body.form.ok
                     /\ req.body.form.hasText \/ req.body.form.hasNoteId
           content == IF fields THEN req.body.form.text ELSE req.body.raw
       IN  /\ PostContent(req) = content
           /\ fields => PostId(req) = req.body.form.noteId
           /\ \A i \in 1..Len(calls) :
                calls[i].op = "Write" => calls[i].content = content

C17_Witness ==
    /\ FormPost(req)
    /\ req.body.form.ok
    /\ req.body.form.hasNoteId
    /\ ~req.body.form.hasText
    /\ req.body.raw # <<>>
    /\ PostContent(req) = <<>>
    /\ Len(calls) = 1
    /\ calls[1].op = "Delete"
    /\ calls[1].id = req.body.form.noteId
    /\ resp.status = 200

\* C18: for a POST with a JSON body the id is the field noteId of the body
\* when non-empty, else the id of the path after /noteid/ without its
\* surrounding slashes; a Storage call made for the request carries that id
\* trimmed.
C18_JSONIdFromBodyThenPath ==
    (JSONPost(req) /\ req.body.json.ok)
    => LET id == IF req.body.json.noteId # <<>> THEN req.body.json.noteId
                 ELSE extractPathNoteID(req)
       IN  /\ PostId(req) = id
           /\ \A i \in 1..Len(calls) :
                TrimSpace(id) # <<>> => calls[i].id = TrimSpace(id)

C18_Witness ==
    /\ JSONPost(req)
    /\ req.body.json.noteId = <<"A">>
    /\ req.path = Str_noteid \o Id_a_b
    /\ Len(calls) = 1
    /\ calls[1].id = <<"A">>
    /\ resp.status = 200

\* C19: a GET reads the id of the query parameter note whenever it is
\* non-empty, whatever the path; it reads the id of the path only when the
\* parameter is empty, and reads nothing when both are empty.
C19_GetIdQueryThenPath ==
    req.method = "GET"
    => LET id == IF req.note # <<>> THEN req.note ELSE extractPathNoteID(req)
       IN  IF id = <<>> THEN calls = <<>>
           ELSE /\ Len(calls) = 1
                /\ calls[1].op = "Read"
                /\ calls[1].id = id
                /\ resp.kind = "html" => resp.noteId = id

C19_Witness ==
    /\ req.method = "GET"
    /\ req.note = <<"A">>
    /\ req.path = Str_noteid \o Id_a_b
    /\ Len(calls) = 1
    /\ calls[1].id = <<"A">>
    /\ resp.status = 200

\* C20: the response of a successful POST is, for a User-Agent containing
\* "curl" in any letter case, a plain-text line with a URL ending in
\* noteid/<id>; else for a form-encoded content type the plain-text line
\* "OK: <id>"; else the JSON object with success=true and noteId=<id>.  The
\* Storage call is the one the id and the content of the request decide.
C20_ResponseShape ==
    (ParsedPost(req) /\ resp.status = 200)
    => /\ Len(calls) = 1
       /\ calls[1].op = IF Blank(PostContent(req)) THEN "Delete" ELSE "Write"
       /\ calls[1].op = "Write" => calls[1].content = PostContent(req)
       /\ TrimSpace(PostId(req)) # <<>> => calls[1].id = TrimSpace(PostId(req))
       /\ IF MentionsCurl(req.userAgent)
          THEN /\ resp.kind = "text"
               /\ resp.ctype = "text/plain"
               /\ SubSeq(resp.text, 1, 7) = <<"h","t","t","p",":","/","/">>
               /\ HasSuffix(resp.text, <<"/","n","o","t","e","i","d","/">>
                                       \o calls[1].id \o <<"\n">>)
          ELSE IF Contains(req.contentType, Str_form)
          THEN /\ resp.kind = "text"
               /\ resp.ctype = "text/plain"
               /\ resp.text = <<"O","K",":"," ">> \o calls[1].id \o <<"\n">>
          ELSE /\ resp.kind = "json"
               /\ resp.success
               /\ resp.noteId = calls[1].id

C20_Witness ==
    /\ ParsedPost(req)
    /\ req.userAgent = Curl
    /\ Contains(req.contentType, Str_form)
    /\ resp.status = 200
    /\ calls[1].op = "Write"
    /\ resp.text = <<"h","t","t","p",":","/","/","h","/","n","o","t","e","i","d","/","A","\n">>

\* C21: in every hosting mode an OPTIONS request is answered 200 with the
\* header Access-Control-Allow-Origin: * and an empty body, and makes no
\* Storage call.
C21_PreflightEveryMode ==
    req.method = "OPTIONS"
    => (/\ resp.status = 200
        /\ resp.cors = "*"
        /\ resp.kind = "none"
        /\ calls = <<>>)

\* C22: ValidateNoteID(id) is true exactly when id is non-empty and every
\* character of id is in [A-Za-z0-9]; it is false for the empty string and
\* for an id with '/', '.', '-', '_', '@', a space or a newline in it.
C22_ValidateIffAlnum ==
    codec.op = "ValidateNoteID"
    => /\ codec.ok = WellFormedId(codec.id)
       /\ (\/ codec.id = <<>>
           \/ \E i \in 1..Len(codec.id) :
                codec.id[i] \in {"/", ".", "-", "_", "@", " ", "\n"})
          => ~codec.ok

C22_Witness ==
    /\ codec.op = "ValidateNoteID"
    /\ codec.id = <<"A", "\n">>
    /\ ~codec.ok

\* C23: every id GenerateNoteID returns has 5 characters and passes
\* ValidateNoteID, and a POST without id for which it is generated is not
\* rejected: the id is written and the answer is 200.
C23_GeneratedIdsValid ==
    codec.op = "GenerateNoteID"
    => LET r   == Request("POST", Root, <<>>, <<>>, Str_json, Browser,
                          JSONBody(<<>>, <<"x">>))
           out == HandlePostOut(backend, store, r, codec.rnd, "none")
       IN  /\ Len(codec.id) = 5
           /\ WellFormedId(codec.id)
           /\ codec.ok
           /\ out.resp.status = 200
           /\ Len(out.calls) = 1
           /\ out.calls[1].op = "Write"
           /\ out.calls[1].id = codec.id

C23_Witness ==
    /\ codec.op = "GenerateNoteID"
    /\ codec.id = <<"A", "A", "9", "A", "A">>
    /\ codec.ok

\* C25: after any sequence of requests served one after the other (no
\* other handler ran during the GET or during a POST of the id), a GET of a
\* valid id whose Read returns no error reads and presents the content of
\* the latest successful POST of that id, which is empty when that POST was
\* blank, and empty content when no POST of the id succeeded.
C25_GetPresentsLastPost ==
    (/\ req.method = "GET"
     /\ Len(calls) = 1
     /\ calls[1].err = NoErr
     /\ calls[1].alone
     /\ calls[1].id \in DOMAIN hist.by => hist.by[calls[1].id].alone
     /\ WellFormedId(calls[1].id))
    => LET last == IF calls[1].id \in DOMAIN hist.by
                   THEN hist.by[calls[1].id].content ELSE <<>>
       IN  /\ calls[1].content = last
           /\ resp.status = 200 => resp.text = last

C30_ReportedIdIsStoredId ==
    (ParsedPost(req) /\ resp.status = 200)
    => (/\ Len(calls) = 1
        /\ calls[1].op \in {"Write", "Delete"}
        /\ ReportedId(resp) = calls[1].id
        /\ IF TrimSpace(PostId(req)) # <<>>
           THEN calls[1].id = TrimSpace(PostId(req))
           ELSE Len(calls[1].id) = length /\ WellFormedId(calls[1].id))

C30_Witness ==
    /\ ParsedPost(req)
    /\ req.userAgent = Curl
    /\ PostId(req) = <<" ", "A", " ">>
    /\ resp.status = 200
    /\ Len(calls) = 1
    /\ calls[1].id = <<"A">>
    /\ ReportedId(resp) = <<"A">>

\* C24: on the disk backend, once two Storage.Write calls on one id that
\* ran concurrently have both returned without error, the note holds the
\* content of one of the two writes.
C24_ConcurrentWritesNoMixture ==
    \A id \in CallIds :
        (/\ backend = "local"
         /\ \A p \in Callers : /\ procs[p].op = "Write"
                               /\ procs[p].id = id
                               /\ procs[p].pc = "done"
                               /\ procs[p].err = NoErr)
        => Stored(backend, store, id) \in {procs[p].content : p \in Callers}

\* C26: on the disk backend, a Storage.Read that has returned without error
\* while the other caller made a Storage.Write of the same id returned the
\* content stored before the write or the content of the write.
C26_ReadSeesBeforeOrAfter ==
    \A r \in Callers, w \in Callers :
        (/\ backend = "local"
         /\ procs[r].op = "Read" /\ procs[r].pc = "done" /\ procs[r].err = NoErr
         /\ procs[w].op = "Write" /\ procs[w].id = procs[r].id)
        => procs[r].result \in {Stored(backend, hist.by, procs[r].id), procs[w].content}

\* C27: distinct valid ids have distinct storage keys on both backends, and
\* under every interleaving an id that no Write or Delete call names reads
\* as it did before the calls.
C27_OtherIdsUntouched ==
    /\ \A a \in CallIds, b \in CallIds :
           a # b => StorageKey(backend, a) # StorageKey(backend, b)
    /\ \A id \in CallIds :
           (\A p \in Callers : procs[p].op \in {"Write", "Delete"} => procs[p].id # id)
           => /\ StorageRead(backend, store, id, "none")
                     = StorageRead(backend, hist.by, id, "none")
              /\ \A p \in Callers :
                     (/\ procs[p].op = "Read" /\ procs[p].id = id
                      /\ procs[p].pc = "done" /\ procs[p].err = NoErr)
                     => procs[p].result = Stored(backend, hist.by, id)

C27_Witness ==
    /\ procs["c1"].op = "Write" /\ procs["c1"].id = <<"A">>
    /\ procs["c1"].pc = "done" /\ procs["c1"].err = NoErr
    /\ Stored(backend, store, <<"A">>) = procs["c1"].content
    /\ procs["c2"].op = "Read" /\ procs["c2"].id = <<"B">>
    /\ procs["c2"].pc = "done"
    /\ procs["c2"].result = <<"x", "x">>
    /\ Stored(backend, hist.by, <<"B">>) = <<"x", "x">>

\* C29: a storage call made with a context that is canceled before the call
\* completes returns an error, on both backends.
C29_CanceledCallAbandoned ==
    \A p \in Callers :
        (procs[p].pc = "done" /\ procs[p].canceled) => procs[p].err # NoErr

====
